---------------------------- MODULE Spec2Model ----------------------------
(***************************************************************************)
(* Model of Contrib/hit_likeness/physchem_calc.py: the line reader         *)
(* read_smi, the descriptor calculator calc / calc_mp and the main block   *)
(* that maps calc_mp over the reader with multiprocessing.Pool.imap and    *)
(* writes the rows to the output file.                                     *)
(*                                                                         *)
(* Strings are sequences of one-character strings.                         *)
(***************************************************************************)
EXTENDS Integers, Sequences, FiniteSets, TLC

(***************************************************************************)
(* Bounds of the model.                                                    *)
(***************************************************************************)
\* longest input file, in lines
MaxLines == 3
\* largest value given to -p/--startpos and to -l/--lines
MaxArg == 2
\* largest value given to -c/--ncpu
MaxNcpu == 2
\* records per dispatch batch: the chunksize of p.imap (100 in the program),
\* scaled down so that a file of MaxLines lines spans several batches
ChunkSize == 2

(***************************************************************************)
(* Program constants.                                                      *)
(***************************************************************************)
\* default=0 of the -p/--startpos option
StartposDefault == 0

Min(a, b) == IF a < b THEN a ELSE b
Max(a, b) == IF a < b THEN b ELSE a

(***************************************************************************)
(* Input alphabet and input lines.                                         *)
(***************************************************************************)
Whitespace == {" ", "\t", "\n"}
\* the characters the SMILES parser accepts: "C" is a heavy atom
AtomSymbols == {"C"}

\* The lines an input file is made of, each ending with its newline.
Lines ==
  { <<"C", "\n">>,                    \* one field
    <<"C", " ", "e", "\n">>,          \* two whitespace-separated fields
    <<"C", ",", "e", "\n">>,          \* two comma-separated fields
    <<"\n">> }                        \* a blank line

RECURSIVE FilesOfLen(_)
FilesOfLen(n) ==
  IF n = 0 THEN { <<>> }
  ELSE { Append(f, l) : f \in FilesOfLen(n - 1), l \in Lines }

Files == UNION { FilesOfLen(n) : n \in 0..MaxLines }

\* an optional command-line value: <<>> when the option is absent
Opt(S) == { <<>> } \cup { <<v>> : v \in S }

VARIABLES
  file,      \* the input file: a sequence of lines
  sep,       \* -s/--sep: <<>> is None (whitespace splitting), else <<char>>
  argv_p,    \* -p/--startpos as given on the command line (Opt)
  argv_l,    \* -l/--lines as given on the command line (Opt)
  ncpu,      \* -c/--ncpu
  pc,        \* main block: "start", "loop", "done", "crashed"
  out,       \* the output file: a sequence of rows
  stderr,    \* the diagnostics written to sys.stderr
  gen,       \* the read_smi generator: "ready", "done", "raised"
  gen_i,     \* the generator's enumerate index i of the next line to read
  gen_exc,   \* the exception the generator raised ("" when none)
  yielded,   \* history: the items the generator has yielded
  buf,       \* the batch the pool's task generation is filling (islice)
  ntasks,    \* number of tasks generated so far (index of the next one)
  taskq,     \* the pool's task queue
  worker,    \* the worker processes
  items_rdy, \* IMapIterator._items: results ready for the main loop, in order
  unsorted,  \* IMapIterator._unsorted: results that arrived ahead of their turn
  index,     \* IMapIterator._index: the next result index to make ready
  length,    \* IMapIterator._length: total number of tasks (-1: not known)
  taken,     \* number of results the main loop has taken
  main_exc,  \* the exception that ended the main block ("" when none)
  calcLog,   \* history: the calls of calc made, (smi, name) and source line
  reordered  \* history: some result arrived ahead of its turn

cfg == <<file, sep, argv_p, argv_l, ncpu>>
readerVars == <<gen, gen_i, gen_exc, yielded, buf, ntasks, length>>
workerVars == <<worker, calcLog, stderr>>
imapVars == <<items_rdy, unsorted, index, reordered>>
mainVars == <<pc, out, taken, main_exc>>
vars == <<cfg, readerVars, taskq, workerVars, imapVars, mainVars>>

(***************************************************************************)
(* str.strip() and str.split(sep).                                         *)
(***************************************************************************)
RECURSIVE lstrip(_)
lstrip(s) ==
  IF s = <<>> THEN s
  ELSE IF Head(s) \in Whitespace THEN lstrip(Tail(s)) ELSE s

RECURSIVE rstrip(_)
rstrip(s) ==
  IF s = <<>> THEN s
  ELSE IF s[Len(s)] \in Whitespace THEN rstrip(SubSeq(s, 1, Len(s) - 1)) ELSE s

strip(s) == rstrip(lstrip(s))

\* split(None): fields are the maximal runs of non-whitespace; none is empty
RECURSIVE SplitWs(_, _, _)
SplitWs(s, cur, acc) ==
  IF s = <<>> THEN (IF cur = <<>> THEN acc ELSE Append(acc, cur))
  ELSE IF Head(s) \in Whitespace
       THEN SplitWs(Tail(s), <<>>, IF cur = <<>> THEN acc ELSE Append(acc, cur))
       ELSE SplitWs(Tail(s), Append(cur, Head(s)), acc)

\* split(c): every occurrence of c ends a field; fields may be empty
RECURSIVE SplitSep(_, _, _, _)
SplitSep(s, c, cur, acc) ==
  IF s = <<>> THEN Append(acc, cur)
  ELSE IF Head(s) = c
       THEN SplitSep(Tail(s), c, <<>>, Append(acc, cur))
       ELSE SplitSep(Tail(s), c, Append(cur, Head(s)), acc)

split(s, sp) ==
  IF sp = <<>> THEN SplitWs(s, <<>>, <<>>) ELSE SplitSep(s, sp[1], <<>>, <<>>)


(***************************************************************************)
(* The external toolkit, as far as calc depends on it.                     *)
(***************************************************************************)
\* Chem.MolFromSmiles: a molecule, or None (ok = FALSE) when smi does not
\* parse; the empty string parses to the molecule without atoms
MolFromSmiles(smi) ==
  IF \A k \in 1..Len(smi) : smi[k] \in AtomSymbols
  THEN [ok |-> TRUE, atoms |-> smi]
  ELSE [ok |-> FALSE, atoms |-> <<>>]

\* m.GetNumHeavyAtoms()
GetNumHeavyAtoms(m) == Cardinality({ k \in 1..Len(m.atoms) : m.atoms[k] = "C" })

(***************************************************************************)
(* calc and calc_mp.  A call gives one of                                  *)
(*   kind "row"   : the tuple returned for a parsed molecule               *)
(*   kind "none"  : None, with one diagnostic written to stderr            *)
(*   kind "raise" : the exception exc raised out of calc                   *)
(* desc stands for the twelve descriptor values.                           *)
(***************************************************************************)
calc(smi, name) ==
  LET m == MolFromSmiles(smi) IN
  IF m.ok
  THEN IF GetNumHeavyAtoms(m) = 0
       THEN [kind |-> "raise", name |-> name, smi |-> smi, desc |-> 0,
             exc |-> "ZeroDivisionError"]
       ELSE [kind |-> "row", name |-> name, smi |-> smi,
             desc |-> GetNumHeavyAtoms(m), exc |-> ""]
  ELSE [kind |-> "none", name |-> name, smi |-> smi, desc |-> 0, exc |-> ""]

\* variant: the pair unpacked in the other order
calc_mp_swapped(items) == calc(items[2], items[1])

calc_mp(items) == calc(items[1], items[2])

(***************************************************************************)
(* read_smi.                                                               *)
(***************************************************************************)
\* start_pos as the main block passes it: int(v) of the option or its default
start_pos == IF argv_p = <<>> THEN StartposDefault ELSE argv_p[1]

\* start_pos -= 1
StartIdx(sp) == sp - 1

\* variant: a window one line longer
EndPos_inclusive(sp0, nl) == sp0 + nl + 1

\* end_pos = start_pos + nlines
EndPos(sp0, nl) == sp0 + nl

\* i < end_pos, where end_pos is float("inf") when nlines is None
BeforeEnd(i, sp0, nl) == nl = <<>> \/ i < EndPos(sp0, nl[1])

\* variant: the second field yielded first
YieldPair_swapped(items) ==
  IF Len(items) = 1 THEN <<items[1], items[1]>> ELSE <<items[2], items[1]>>

\* the pair yielded for a line of one or more fields
YieldPair(items) ==
  IF Len(items) = 1 THEN <<items[1], items[1]>> ELSE <<items[1], items[2]>>

\* One resumption of the generator at enumerate index i: it runs the loop
\* up to the next yield, to a raise, or to the end of the file.
RECURSIVE read_smi(_, _, _, _, _)
read_smi(f, sp, spos, nl, i) ==
  IF i >= Len(f)
  THEN [kind |-> "stop", pair |-> <<>>, i |-> i, exc |-> ""]
  ELSE IF i >= StartIdx(spos)
       THEN IF BeforeEnd(i, StartIdx(spos), nl)
            THEN LET items == split(strip(f[i + 1]), sp) IN
                 IF Len(items) = 0
                 THEN [kind |-> "raise", pair |-> <<>>, i |-> i,
                       exc |-> "IndexError"]
                 ELSE [kind |-> "yield", pair |-> YieldPair(items),
                       i |-> i + 1, exc |-> ""]
            ELSE [kind |-> "raise", pair |-> <<>>, i |-> i,
                  exc |-> "StopIteration"]
       ELSE read_smi(f, sp, spos, nl, i + 1)

(***************************************************************************)
(* multiprocessing.Pool.imap as the main block uses it.                    *)
(***************************************************************************)
\* Pool(min(ncpu, cpu_count())): the machine has at least MaxNcpu cores
Workers == 1..ncpu

Idle == [busy |-> FALSE, idx |-> 0, kind |-> "map", items |-> <<>>,
         res |-> <<>>, exc |-> ""]

RECURSIVE Drain(_)
Drain(st) ==
  IF \E r \in st.unsorted : r.idx = st.index
  THEN LET r == CHOOSE r \in st.unsorted : r.idx = st.index IN
       Drain([items |-> Append(st.items, r), unsorted |-> st.unsorted \ {r},
              index |-> st.index + 1])
  ELSE st

\* variant: IMapUnorderedIterator._set of p.imap_unordered
IMapSet_unordered(st, obj) ==
  [items |-> Append(st.items, obj), unsorted |-> st.unsorted,
   index |-> st.index]

\* IMapIterator._set of p.imap: a result is made ready only at its turn
IMapSet(st, obj) ==
  IF obj.idx = st.index
  THEN Drain([items |-> Append(st.items, obj), unsorted |-> st.unsorted,
              index |-> st.index + 1])
  ELSE [items |-> st.items, unsorted |-> st.unsorted \cup {obj},
        index |-> st.index]

\* a worker hands the result of its task back to the iterator
PutResult(obj) ==
  LET st == IMapSet([items |-> items_rdy, unsorted |-> unsorted,
                     index |-> index], obj) IN
  /\ items_rdy' = st.items
  /\ unsorted' = st.unsorted
  /\ index' = st.index
  /\ reordered' = (reordered \/ st.unsorted # {})

(***************************************************************************)
(* Rows of the output file.                                                *)
(***************************************************************************)
\* '\t'.join(['Name'] + descriptor_names)
HeaderRow == [kind |-> "header", name |-> <<"N", "a", "m", "e">>, desc |-> 0,
              ln |-> 0]

\* '\t'.join(map(str, res)); ln is history: the line the row comes from
DataRow(r) == [kind |-> "data", name |-> r.name, desc |-> r.desc, ln |-> r.ln]

RECURSIVE RowsOf(_)
\* the rows the main loop writes for the results of one batch: "if res:"
RowsOf(rs) ==
  IF rs = <<>> THEN <<>>
  ELSE IF Head(rs).kind = "row"
       THEN <<DataRow(Head(rs))>> \o RowsOf(Tail(rs))
       ELSE RowsOf(Tail(rs))

(***************************************************************************)
(* Initial states: the command line and the input file.                    *)
(***************************************************************************)
Init ==
  /\ file \in Files
  /\ sep \in { <<>>, <<",">> }
  /\ argv_p \in Opt(1..MaxArg)
  /\ argv_l \in Opt(1..MaxArg)
  /\ ncpu \in 1..MaxNcpu
  /\ pc = "start"
  /\ out = <<>>
  /\ stderr = <<>>
  /\ gen = "ready"
  /\ gen_i = 0
  /\ gen_exc = ""
  /\ yielded = <<>>
  /\ buf = <<>>
  /\ ntasks = 0
  /\ taskq = <<>>
  /\ worker = [w \in Workers |-> Idle]
  /\ items_rdy = <<>>
  /\ unsorted = {}
  /\ index = 0
  /\ length = -1
  /\ taken = 0
  /\ main_exc = ""
  /\ calcLog = {}
  /\ reordered = FALSE

(***************************************************************************)
(* The main block.                                                         *)
(***************************************************************************)
\* p = Pool(...); open(out_fname, 'wt'); the header is written; p.imap starts
Start ==
  /\ pc = "start"
  /\ pc' = "loop"
  /\ out' = <<HeaderRow>>
  /\ UNCHANGED <<cfg, readerVars, taskq, workerVars, imapVars, taken, main_exc>>

MapTask(k, its) == [idx |-> k, kind |-> "map", items |-> its, exc |-> ""]
ReraiseTask(k, e) == [idx |-> k, kind |-> "reraise", items |-> <<>>, exc |-> e]

\* The pool's task generation takes the next item from the generator:
\* Pool._get_tasks fills a batch with islice(it, chunksize), and
\* Pool._guarded_task_generation turns an exception of the iterable into
\* a task that re-raises it; a batch being filled is lost with it.
\* "raise StopIteration" inside a generator depends on the interpreter:
\* it becomes RuntimeError (pep479, CPython >= 3.7) or ends the generator.
ReadNext ==
  /\ pc = "loop"
  /\ gen = "ready"
  /\ \E pep479 \in BOOLEAN :
     LET r == read_smi(file, sep, start_pos, argv_l, gen_i)
         ends == r.kind = "stop" \/ (r.exc = "StopIteration" /\ ~pep479)
         e == IF r.exc = "StopIteration" THEN "RuntimeError" ELSE r.exc
     IN
     /\ gen_i' = r.i
     /\ IF r.kind = "yield"
        THEN LET it == [pair |-> r.pair, ln |-> r.i]
                 b == Append(buf, it) IN
             /\ yielded' = Append(yielded, it)
             /\ gen' = "ready"
             /\ gen_exc' = ""
             /\ length' = length
             /\ IF Len(b) = ChunkSize
                THEN /\ taskq' = Append(taskq, MapTask(ntasks, b))
                     /\ ntasks' = ntasks + 1
                     /\ buf' = <<>>
                ELSE /\ buf' = b
                     /\ UNCHANGED <<taskq, ntasks>>
        ELSE IF ends
        THEN /\ gen' = "done"
             /\ gen_exc' = ""
             /\ buf' = <<>>
             /\ IF buf # <<>>
                THEN /\ taskq' = Append(taskq, MapTask(ntasks, buf))
                     /\ ntasks' = ntasks + 1
                ELSE UNCHANGED <<taskq, ntasks>>
             /\ length' = ntasks'
             /\ UNCHANGED yielded
        ELSE /\ gen' = "raised"
             /\ gen_exc' = e
             /\ buf' = <<>>
             /\ taskq' = Append(taskq, ReraiseTask(ntasks, e))
             /\ ntasks' = ntasks + 1
             /\ length' = ntasks'
             /\ UNCHANGED yielded
  /\ UNCHANGED <<cfg, workerVars, imapVars, mainVars>>

\* an idle worker takes the next task from the queue
WorkerGet(w) ==
  /\ pc = "loop"
  /\ ~worker[w].busy
  /\ taskq # <<>>
  /\ LET t == Head(taskq) IN
     worker' = [worker EXCEPT ![w] =
                  [busy |-> TRUE, idx |-> t.idx, kind |-> t.kind,
                   items |-> t.items, res |-> <<>>, exc |-> t.exc]]
  /\ taskq' = Tail(taskq)
  /\ UNCHANGED <<cfg, readerVars, calcLog, stderr, imapVars, mainVars>>

\* mapstar: the worker applies calc_mp to the next item of its batch; an
\* exception fails the whole batch, the last item completes it
WorkerCalc(w) ==
  /\ pc = "loop"
  /\ worker[w].busy
  /\ worker[w].kind = "map"
  /\ LET wk == worker[w]
         it == wk.items[Len(wk.res) + 1]
         c == calc_mp(it.pair)
         r == [kind |-> c.kind, name |-> c.name, desc |-> c.desc, ln |-> it.ln]
         rs == Append(wk.res, r)
     IN
     /\ calcLog' = calcLog \cup {[smi |-> c.smi, name |-> c.name, ln |-> it.ln]}
     /\ stderr' = IF c.kind = "none"
                  THEN Append(stderr, [smi |-> c.smi, name |-> c.name,
                                       ln |-> it.ln])
                  ELSE stderr
     /\ IF c.kind = "raise"
        THEN /\ worker' = [worker EXCEPT ![w] = Idle]
             /\ PutResult([idx |-> wk.idx, ok |-> FALSE, value |-> <<>>,
                           exc |-> c.exc])
        ELSE IF Len(rs) = Len(wk.items)
        THEN /\ worker' = [worker EXCEPT ![w] = Idle]
             /\ PutResult([idx |-> wk.idx, ok |-> TRUE, value |-> rs,
                           exc |-> ""])
        ELSE /\ worker' = [worker EXCEPT ![w].res = rs]
             /\ UNCHANGED imapVars
  /\ UNCHANGED <<cfg, readerVars, taskq, mainVars>>

\* _helper_reraises_exception: the worker raises the iterable's exception
WorkerReraise(w) ==
  /\ pc = "loop"
  /\ worker[w].busy
  /\ worker[w].kind = "reraise"
  /\ worker' = [worker EXCEPT ![w] = Idle]
  /\ PutResult([idx |-> worker[w].idx, ok |-> FALSE, value |-> <<>>,
                exc |-> worker[w].exc])
  /\ UNCHANGED <<cfg, readerVars, taskq, calcLog, stderr, mainVars>>

\* the main loop takes the next ready batch and writes its rows
MainWrite ==
  /\ pc = "loop"
  /\ items_rdy # <<>>
  /\ Head(items_rdy).ok
  /\ out' = out \o RowsOf(Head(items_rdy).value)
  /\ items_rdy' = Tail(items_rdy)
  /\ taken' = taken + 1
  /\ UNCHANGED <<cfg, readerVars, taskq, workerVars, unsorted, index,
                 reordered, pc, main_exc>>

\* the next ready result is an exception: it is raised out of the main loop
MainRaise ==
  /\ pc = "loop"
  /\ items_rdy # <<>>
  /\ ~Head(items_rdy).ok
  /\ pc' = "crashed"
  /\ main_exc' = Head(items_rdy).exc
  /\ items_rdy' = Tail(items_rdy)
  /\ UNCHANGED <<cfg, readerVars, taskq, workerVars, unsorted, index,
                 reordered, out, taken>>

\* every task's result has been taken: the loop ends and the file is closed
MainFinish ==
  /\ pc = "loop"
  /\ items_rdy = <<>>
  /\ length >= 0
  /\ taken = length
  /\ pc' = "done"
  /\ UNCHANGED <<cfg, readerVars, taskq, workerVars, imapVars, out, taken,
                 main_exc>>

Next ==
  \/ Start
  \/ ReadNext
  \/ \E w \in Workers : WorkerGet(w)
  \/ \E w \in Workers : WorkerCalc(w)
  \/ \E w \in Workers : WorkerReraise(w)
  \/ MainWrite
  \/ MainRaise
  \/ MainFinish

Spec == Init /\ [][Next]_vars

(***************************************************************************)
(* Definitions the properties are stated with.                             *)
(***************************************************************************)
\* the run has ended: the loop finished, or an exception left the main block
Finished == pc \in {"done", "crashed"}

\* the fields of line k (1-based) of the input file
Fields(k) == split(strip(file[k]), sep)

IsData(r) == r.kind = "data"
DataRows(o) == SelectSeq(o, IsData)

LineNos(s) == [k \in 1..Len(s) |-> s[k].ln]

Parses(it) == MolFromSmiles(it.pair[1]).ok

\* the items a single sequential reading of the whole file yields
RECURSIVE ReadAll(_)
ReadAll(i) ==
  LET r == read_smi(file, sep, start_pos, argv_l, i) IN
  IF r.kind = "yield"
  THEN <<[pair |-> r.pair, ln |-> r.i]>> \o ReadAll(r.i)
  ELSE <<>>

RefItems == ReadAll(0)

\* the rows of a sequential map of calc_mp over items, in their order
RECURSIVE SeqRows(_)
SeqRows(its) ==
  IF its = <<>> THEN <<>>
  ELSE LET c == calc_mp(Head(its).pair) IN
       IF c.kind = "row"
       THEN <<[kind |-> "data", name |-> c.name, desc |-> c.desc,
               ln |-> Head(its).ln]>> \o SeqRows(Tail(its))
       ELSE SeqRows(Tail(its))

\* number of leading items that lie in batches all of whose calls return;
\* drop: the reader ended with an exception, which loses an unfilled batch
RECURSIVE GoodLen(_, _)
GoodLen(its, drop) ==
  IF its = <<>> THEN 0
  ELSE LET n == Min(ChunkSize, Len(its)) IN
       IF \/ (n < ChunkSize /\ drop)
          \/ \E k \in 1..n : calc_mp(its[k].pair).kind = "raise"
       THEN 0
       ELSE n + GoodLen(SubSeq(its, n + 1, Len(its)), drop)

(***************************************************************************)
(* C1.  Order preservation of the parallel map.                            *)
(***************************************************************************)
\* C1: under every interleaving and completion order of the workers, the
\* data rows in the output file are the rows of the records read, in the
\* order they were read (those of the batches taken so far); and when the
\* run has ended they are the rows a sequential run writes, which do not
\* depend on the number of workers.
C1_OrderPreserved ==
  /\ DataRows(out) =
       SeqRows(SubSeq(yielded, 1, Min(taken * ChunkSize, Len(yielded))))
  /\ Finished =>
       DataRows(out) =
         SeqRows(SubSeq(RefItems, 1, GoodLen(RefItems, gen = "raised")))

\* a run of two workers in which a later batch completed before an earlier
\* one, and all rows of both were written
C1_Witness ==
  /\ pc = "done"
  /\ ncpu >= 2
  /\ reordered
  /\ Len(DataRows(out)) > ChunkSize

(***************************************************************************)
(* C2.  The window of an explicit start line and a line count.             *)
(***************************************************************************)
NonBlank == \A k \in 1..Len(file) : strip(file[k]) # <<>>

\* the last line (1-based) of the window starting at line s
WindowLast(s) ==
  IF argv_l = <<>> THEN Len(file) ELSE Min(s + argv_l[1] - 1, Len(file))

\* the records of lines s .. last, one per line, in file order
WindowRecords(s, last) ==
  [k \in 1..Max(0, last - s + 1) |->
     [pair |-> YieldPair(Fields(s + k - 1)), ln |-> s + k - 1]]

\* C2: for a file of non-blank lines and an explicit start line s >= 1, the
\* pairs yielded so far are the first records of lines s .. min(s+c-1, n)
\* (s .. n without a count), and when the reader has ended they are all of
\* them, one per line, in file order.
C2_WindowExact ==
  (argv_p # <<>> /\ argv_p[1] >= 1 /\ NonBlank) =>
    LET w == WindowRecords(argv_p[1], WindowLast(argv_p[1])) IN
    /\ Len(yielded) <= Len(w)
    /\ yielded = SubSeq(w, 1, Len(yielded))
    /\ gen # "ready" => yielded = w

\* start line 2, one line, on a file of three non-blank lines: the reader
\* has ended having yielded the second line's record only
C2_Witness ==
  /\ argv_p = <<2>>
  /\ argv_l = <<1>>
  /\ Len(file) = 3
  /\ NonBlank
  /\ gen # "ready"
  /\ LineNos(yielded) = <<2>>

(***************************************************************************)
(* C3.  Header and row count.                                              *)
(***************************************************************************)
ParsedItems == SelectSeq(RefItems, Parses)

\* C3: the header row is the first line of the output file, and when the
\* run has ended the data rows are those of the records of the window whose
\* structure parsed: one row per such record, carrying its identifier.
C3_RowsMatchParsed ==
  /\ pc # "start" => (out # <<>> /\ out[1] = HeaderRow)
  /\ Finished =>
       /\ Len(DataRows(out)) = Len(ParsedItems)
       /\ \A k \in 1..Len(ParsedItems) :
            /\ DataRows(out)[k].ln = ParsedItems[k].ln
            /\ DataRows(out)[k].name = ParsedItems[k].pair[2]

(***************************************************************************)
(* C4.  A structure that does not parse.                                   *)
(***************************************************************************)
\* C4: for every call of calc on a structure that does not parse, stderr
\* holds exactly one diagnostic for it, naming the structure and the
\* identifier, no row is written for it, and when the run has ended every
\* later record of the window that parses has its row in the output file.
C4_ParseFailureSkipped ==
  \A c \in calcLog :
    ~MolFromSmiles(c.smi).ok =>
      /\ Cardinality({ k \in 1..Len(stderr) : stderr[k].ln = c.ln }) = 1
      /\ \A k \in 1..Len(stderr) :
           stderr[k].ln = c.ln =>
             (stderr[k].smi = c.smi /\ stderr[k].name = c.name)
      /\ \A k \in 1..Len(out) : out[k].ln # c.ln
      /\ Finished =>
           \A j \in 1..Len(RefItems) :
             (RefItems[j].ln > c.ln /\ Parses(RefItems[j])) =>
               \E k \in 1..Len(out) :
                 IsData(out[k]) /\ out[k].ln = RefItems[j].ln

(***************************************************************************)
(* C5.  Which field is the identifier (lines of two or more fields).       *)
(***************************************************************************)
\* C5 as stated: for a line of two or more fields, calc receives the first
\* field as the identifier and the second as the structure.
C5_FirstFieldIsIdentifier ==
  \A c \in calcLog :
    Len(Fields(c.ln)) >= 2 =>
      (c.name = Fields(c.ln)[1] /\ c.smi = Fields(c.ln)[2])

\* C5, amended: for a line of two or more fields, calc receives the first
\* field as the structure that is parsed and the second field as the
\* identifier, and the row written for the line carries the second field
\* in its Name column.
C5_SecondFieldIsIdentifier ==
  /\ \A c \in calcLog :
       Len(Fields(c.ln)) >= 2 =>
         (c.smi = Fields(c.ln)[1] /\ c.name = Fields(c.ln)[2])
  /\ \A k \in 1..Len(out) :
       (IsData(out[k]) /\ Len(Fields(out[k].ln)) >= 2) =>
         out[k].name = Fields(out[k].ln)[2]

\* a row has been written for a line of two distinct fields
C5_Witness ==
  \E k \in 1..Len(out) :
    /\ IsData(out[k])
    /\ Len(Fields(out[k].ln)) >= 2
    /\ Fields(out[k].ln)[1] # Fields(out[k].ln)[2]
    /\ \E c \in calcLog : c.ln = out[k].ln

(***************************************************************************)
(* C6.  Structure first, identifier second or defaulted.                   *)
(***************************************************************************)
IdentifierOf(fs) == IF Len(fs) >= 2 THEN fs[2] ELSE fs[1]

\* C6: every pair the reader yields, and every call of calc, has the
\* line's first field as the structure and, as the identifier, the second
\* field when there is one and the first field otherwise; under whitespace
\* splitting the line "C e" gives structure "C", identifier "e", and the
\* line "C" gives structure "C", identifier "C".
C6_StructureFirst ==
  /\ \A k \in 1..Len(yielded) :
       LET y == yielded[k] IN
       /\ y.pair[1] = Fields(y.ln)[1]
       /\ y.pair[2] = IdentifierOf(Fields(y.ln))
       /\ (sep = <<>> /\ file[y.ln] = <<"C", " ", "e", "\n">>) =>
            y.pair = << <<"C">>, <<"e">> >>
       /\ (sep = <<>> /\ file[y.ln] = <<"C", "\n">>) =>
            y.pair = << <<"C">>, <<"C">> >>
  /\ \A c \in calcLog :
       /\ c.smi = Fields(c.ln)[1]
       /\ c.name = IdentifierOf(Fields(c.ln))

\* calc has been called for a two-field line and for a one-field line
C6_Witness ==
  /\ sep = <<>>
  /\ \E c \in calcLog : file[c.ln] = <<"C", " ", "e", "\n">>
  /\ \E c \in calcLog : file[c.ln] = <<"C", "\n">>

(***************************************************************************)
(* C7.  The default start line.                                            *)
(***************************************************************************)
\* C7: without -p the start line is 1: with -l L the reader, when it has
\* ended, has yielded exactly the first min(L, n) lines of a file of n
\* non-blank lines, as it does with -p 1.
C7_DefaultStartIsOne ==
  (argv_p = <<>> /\ argv_l # <<>> /\ NonBlank /\ gen # "ready")
    => LineNos(yielded) = LineNos(WindowRecords(1, WindowLast(1)))

(***************************************************************************)
(* C8.  How the reader's sequence ends.                                    *)
(***************************************************************************)
\* C8: the reader ends by plain exhaustion at the end of the window as at
\* the end of the file: it raises nothing there, and the run is not ended
\* by an exception of the reader's end.  Stated for the runs given an
\* explicit start line and a file of non-blank lines, where the window is
\* the one C2 describes and no line of it faults.
C8_ReaderEndsByExhaustion ==
  (argv_p # <<>> /\ NonBlank) =>
    /\ gen # "raised"
    /\ main_exc # "RuntimeError"

(***************************************************************************)
(* C9.  A fault raised in calc.                                            *)
(***************************************************************************)
Faults(c) == calc(c.smi, c.name).kind = "raise"

\* C9: when calc has raised for a record, then at the end of the run every
\* other record of the window for which calc returns a row has its row in
\* the output file.
C9_FaultConfined ==
  (Finished /\ \E c \in calcLog : Faults(c)) =>
    \A j \in 1..Len(RefItems) :
      calc_mp(RefItems[j].pair).kind = "row" =>
        \E k \in 1..Len(out) : IsData(out[k]) /\ out[k].ln = RefItems[j].ln

(***************************************************************************)
(* C10.  One pair per line of the window.                                  *)
(***************************************************************************)
\* the lines (0-based) the reader's two comparisons put inside the window
InWindow ==
  { i \in 0..(Len(file) - 1) :
      i >= StartIdx(start_pos) /\ BeforeEnd(i, StartIdx(start_pos), argv_l) }

\* C10: the reader raises no fault for a line of the window, whatever the
\* line holds, and when it has ended it has yielded one pair per line of
\* the window.
C10_OnePairPerLine ==
  /\ gen_exc # "IndexError"
  /\ gen # "ready" => Len(yielded) = Cardinality(InWindow)

=============================================================================
